---- MODULE Spec2Model ----
(***************************************************************************)
(* requestpq: an array-backed binary min-heap of Items (package heap), the *)
(* lock-protected priority Queue built on it (req_pq.go) and the channel   *)
(* adapter DecorateChannel (req_pq.go).                                     *)
(*                                                                         *)
(* Spec      the Queue API called by one caller: Enqueue, Dequeue, Len,    *)
(*           Empty, on a queue built by NewQueue or mockNewQueue.           *)
(* SpecChan  DecorateChannel: a producer, the ingestion goroutine, the     *)
(*           emission goroutine and a consumer, interleaved at the         *)
(*           granularity of lock operations and channel operations.        *)
(***************************************************************************)
EXTENDS Integers, Sequences, FiniteSets, TLC

VARIABLES
    heap,       \* Queue.heap: the ItemHeap array, index 0 is the dummy item
    count,      \* Queue.count: the uint64 sequence counter
    ret,        \* the result of the last Queue API call
    served,     \* history: the items removed by successful Dequeue calls
    run,        \* history: the items dequeued since the last Enqueue
    nEnq,       \* history: number of Enqueue calls
    nDeq,       \* history: number of successful Dequeue calls
    renum,      \* history: payloads whose Enqueue performed a renumbering
    input,      \* the priorities the producer feeds, in feeding order
    inCap,      \* capacity of inChan (chosen by the caller)
    buffer,     \* capacity of outChan (DecorateChannel's buffer argument)
    sent,       \* number of tasks the producer has sent into inChan
    inBuf,      \* the tasks buffered in inChan
    inClosed,   \* whether the producer has closed inChan
    pcIn,       \* position of the ingestion goroutine
    task,       \* the task held by the ingestion goroutine
    pcOut,      \* position of the emission goroutine
    data,       \* the payload held by the emission goroutine
    lock,       \* pq.lock: "free", or the goroutine holding it
    outBuf,     \* the payloads buffered in outChan
    received,   \* history: the payloads the consumer has received
    popped,     \* history: the items popped by the emission goroutine
    nEarly,     \* history: pops made before the last task was enqueued
    earlyRead,  \* history: the consumer received before the producer finished
    tpc,        \* position of each concurrent caller of the Queue API
    top         \* the call each concurrent caller is making

qvars == <<heap, count, ret, served, run, nEnq, nDeq, renum>>
cvars == <<input, inCap, buffer, sent, inBuf, inClosed, pcIn, task, pcOut,
           data, lock, outBuf, received, popped, nEarly, earlyRead>>
tvars == <<tpc, top>>
vars == <<qvars, cvars, tvars>>

----
\* Bounds of the model.

\* Width of the sequence counter in the model (uint64 in the program).
CounterBits == 3
\* Largest number of Enqueue calls in a behaviour of Spec.
MaxEnq == 4
\* mockNewQueue starts the counter at most NearMax below math.MaxUint64.
NearMax == 2
\* Largest priority value; priorities are drawn from 0..MaxPrio.
MaxPrio == 1
\* Number of tasks the producer feeds in a behaviour of SpecChan.
NTasks == 3
\* Largest capacity of outChan.
MaxBuffer == 1
\* Number of goroutines that call one Queue concurrently in SpecConc.
NThreads == 2
\* Largest number of Enqueue calls in a behaviour of SpecConc.
ConcEnq == 2

Prios == 0..MaxPrio

----
\* package heap

\* The nil payload of the dummy item and of a failed Dequeue.
Nil == 0

\* An Item. The tie-break field is Order, the uint64 that Queue.Enqueue sets
\* (req_pq.go line 50); the heap source at hand names it CreatedAt, a time,
\* and compares it the same way (Before is <).
Item(p, d, o) == [Priority |-> p, Data |-> d, Order |-> o]

\* math.MaxUint64, at the model's counter width.
MaxUint64 == 2^CounterBits - 1

NewHeap == [i \in 0..0 |-> Item(0, Nil, 0)]

\* Mutant of ItemHeapLen: the array size, the dummy counted.
ItemHeapLenWithDummy(h) == Cardinality(DOMAIN h)

ItemHeapLen(h) == Cardinality(DOMAIN h) - 1

Empty(h) == ItemHeapLen(h) = 0

\* Mutant of Less: no tie-break on equal priorities.
LessNoTieBreak(h, i, j) == h[i].Priority < h[j].Priority

\* Mutant of Less: larger priority numbers first.
LessDescending(h, i, j) ==
    IF h[i].Priority = h[j].Priority
    THEN h[i].Order < h[j].Order
    ELSE h[i].Priority > h[j].Priority

Less(h, i, j) ==
    IF h[i].Priority = h[j].Priority
    THEN h[i].Order < h[j].Order
    ELSE h[i].Priority < h[j].Priority

Swap(h, i, j) == [k \in DOMAIN h |-> IF k = i THEN h[j] ELSE IF k = j THEN h[i] ELSE h[k]]

parent(k) == k \div 2
leftChild(k) == k * 2
rightChild(k) == k * 2 + 1

\* Mutant of up: the item climbs one level at most.
upOneLevel(h, j) ==
    IF j > 1 /\ Less(h, j, j \div 2) THEN Swap(h, j \div 2, j) ELSE h

RECURSIVE up(_, _)
up(h, j) ==
    LET i == parent(j)
    IN  IF j > 1 /\ Less(h, j, i) THEN up(Swap(h, i, j), i) ELSE h

\* Mutant of down: the right child is never looked at.
RECURSIVE downLeftOnly(_, _)
downLeftOnly(h, j) ==
    LET n == Cardinality(DOMAIN h) - 1
        l == j * 2
    IN  IF l > n THEN h
        ELSE IF h[l].Priority < h[j].Priority
                \/ (h[l].Priority = h[j].Priority /\ h[l].Order < h[j].Order)
             THEN downLeftOnly([k \in DOMAIN h |-> IF k = j THEN h[l] ELSE IF k = l THEN h[j] ELSE h[k]], l)
             ELSE h

RECURSIVE down(_, _)
down(h, j) ==
    LET n == ItemHeapLen(h)
        l == leftChild(j)
        r == rightChild(j)
        smallestChild == IF r > n THEN l ELSE IF Less(h, l, r) THEN l ELSE r
    IN  IF l > n THEN h
        ELSE IF smallestChild <= n /\ Less(h, smallestChild, j)
             THEN down(Swap(h, j, smallestChild), smallestChild)
             ELSE h

Push(h, item) ==
    LET n == ItemHeapLen(h)
        appended == [k \in 0..(n + 1) |-> IF k = n + 1 THEN item ELSE h[k]]
    IN  up(appended, n + 1)

\* Mutant of Pop: on an empty heap the dummy item is returned, not nil.
PopDummy(h) ==
    IF Empty(h)
    THEN [isNil |-> FALSE, item |-> h[0], heap |-> h]
    ELSE LET n == ItemHeapLen(h)
             swapped == Swap(h, 1, n)
             cut == [k \in 0..(n - 1) |-> swapped[k]]
         IN  [isNil |-> FALSE, item |-> swapped[n], heap |-> down(cut, 1)]

\* Pop returns the removed item (isNil when the heap is empty) and the heap
\* it leaves.
Pop(h) ==
    IF Empty(h)
    THEN [isNil |-> TRUE, item |-> Item(0, Nil, 0), heap |-> h]
    ELSE LET n == ItemHeapLen(h)
             swapped == Swap(h, 1, n)
             cut == [k \in 0..(n - 1) |-> swapped[k]]
         IN  [isNil |-> FALSE, item |-> swapped[n], heap |-> down(cut, 1)]

\* The items of h in the order repeated Pop returns them.
RECURSIVE Drain(_)
Drain(h) ==
    IF Empty(h) THEN <<>> ELSE <<Pop(h).item>> \o Drain(Pop(h).heap)

\* Mutant of ReOrderHeap: the sequence numbers are given in the reverse of
\* the dequeue order.
ReOrderHeapReversed(h) ==
    LET d == Drain(h)
        rank(k) == CHOOSE r \in 1..Len(d) : d[r].Data = h[k].Data
    IN  [k \in DOMAIN h |-> IF k = 0 THEN h[k] ELSE [h[k] EXCEPT !.Order = Len(d) - rank(k)]]

\* ReOrder gives the items the sequence numbers 0..n-1 in dequeue order (the
\* items are shared by pointer, so the array keeps its layout) and returns
\* the counter value to continue from.
ReOrderHeap(h) ==
    LET d == Drain(h)
        rank(k) == CHOOSE r \in 1..Len(d) : d[r].Data = h[k].Data
    IN  [k \in DOMAIN h |-> IF k = 0 THEN h[k] ELSE [h[k] EXCEPT !.Order = rank(k) - 1]]

\* The spec leaves ReOrder's return value open: the number of items n (the
\* next free sequence number) or the last sequence number given, n - 1 as a
\* uint64. Both are outcomes of the model.
ReOrderCount(h) ==
    {ItemHeapLen(h), (ItemHeapLen(h) - 1) % (MaxUint64 + 1)}

\* The heap used alone, as the tests of package heap use it: an item is
\* pushed with any priority and with the zero tie-break value (no CreatedAt,
\* TestEqualPriorityNoTime) or a value larger than every one before (the
\* time of the push, TestEqualPriority); its payload d is the number of the
\* push, which also serves as that time.
TieBreaks(d) == {0, d}

HeapPush(p, o) ==
    /\ heap' = Push(heap, Item(p, nEnq + 1, o))
    /\ nEnq' = nEnq + 1
    /\ run' = <<>>
    /\ UNCHANGED <<count, ret, served, nDeq, renum>>

HeapPop ==
    LET r == Pop(heap)
    IN  /\ heap' = r.heap
        /\ IF r.isNil
           THEN UNCHANGED <<served, run, nDeq>>
           ELSE /\ served' = Append(served, r.item)
                /\ run' = Append(run, r.item)
                /\ nDeq' = nDeq + 1
        /\ UNCHANGED <<count, ret, nEnq, renum>>

----
\* package requestpq: Queue

EmptyQueue == "pop an empty queue"

Result(op, d, err, n, b) == [op |-> op, data |-> d, err |-> err, n |-> n, b |-> b]

\* NewQueue() starts the counter at 0; mockNewQueue(initCount) starts it at
\* initCount, here 0 or a value at most NearMax below math.MaxUint64.
InitCounts == {0} \cup {MaxUint64 - k : k \in 0..NearMax}

InitQueue ==
    /\ heap = NewHeap
    /\ count \in InitCounts
    /\ ret = Result("NewQueue", Nil, "", 0, FALSE)
    /\ served = <<>>
    /\ run = <<>>
    /\ nEnq = 0
    /\ nDeq = 0
    /\ renum = {}

\* Mutant of Enqueue: no renumbering, the counter wraps around.
EnqueueWrapping(d, p) ==
    LET c1 == (count + 1) % (MaxUint64 + 1)
    IN  /\ count' = c1
        /\ heap' = Push(heap, Item(p, d, c1))

\* q.Enqueue(d, p) on the queue's fields: lines 43-52, under the lock.
Enqueue(d, p) ==
    \E c \in (IF count = MaxUint64 THEN ReOrderCount(heap) ELSE {count}) :
        LET h == IF count = MaxUint64 THEN ReOrderHeap(heap) ELSE heap
            c1 == (c + 1) % (MaxUint64 + 1)
        IN  /\ count' = c1
            /\ heap' = Push(h, Item(p, d, c1))

\* A caller's q.Enqueue(d, p); the payload d is the number of this call, so
\* that payloads tell the enqueue order.
CallEnqueue(d, p) ==
    /\ Enqueue(d, p)
    /\ renum' = IF count = MaxUint64 THEN renum \cup {d} ELSE renum
    /\ ret' = Result("Enqueue", Nil, "", 0, FALSE)
    /\ nEnq' = nEnq + 1
    /\ run' = <<>>
    /\ UNCHANGED <<served, nDeq>>

\* q.Dequeue(): what it returns, as a Result.
Dequeue(h) ==
    IF Pop(h).isNil
    THEN Result("Dequeue", Nil, EmptyQueue, 0, FALSE)
    ELSE Result("Dequeue", Pop(h).item.Data, "", 0, FALSE)

\* A caller's q.Dequeue()
CallDequeue ==
    LET r == Pop(heap)
    IN  /\ heap' = r.heap
        /\ ret' = Dequeue(heap)
        /\ IF r.isNil
           THEN UNCHANGED <<served, run, nDeq>>
           ELSE /\ served' = Append(served, r.item)
                /\ run' = Append(run, r.item)
                /\ nDeq' = nDeq + 1
        /\ UNCHANGED <<count, nEnq, renum>>

\* A caller's q.Len()
CallLen ==
    /\ ret' = Result("Len", Nil, "", ItemHeapLen(heap), FALSE)
    /\ UNCHANGED <<heap, count, served, run, nEnq, nDeq, renum>>

\* A caller's q.Empty()
CallEmpty ==
    /\ ret' = Result("Empty", Nil, "", 0, Empty(heap))
    /\ UNCHANGED <<heap, count, served, run, nEnq, nDeq, renum>>

----
\* package requestpq: DecorateChannel

Task(d, p) == [Data |-> d, Priority |-> p]

NoTask == Task(Nil, 0)

\* The k-th task the producer feeds; its payload is its position k.
Fed(k) == Task(k, input[k])

ChanPrios == 0..(NTasks - 1)

InCaps == {0, 1}

Buffers == {0, MaxBuffer}

\* The state when DecorateChannel returns: both goroutines started, pq new.
InitChan ==
    /\ input \in [1..NTasks -> ChanPrios]
    /\ inCap \in InCaps
    /\ buffer \in Buffers
    /\ sent = 0
    /\ inBuf = <<>>
    /\ inClosed = FALSE
    /\ pcIn = "recv"
    /\ task = NoTask
    /\ pcOut = "lock"
    /\ data = Nil
    /\ lock = "free"
    /\ outBuf = <<>>
    /\ received = <<>>
    /\ popped = <<>>
    /\ nEarly = 0
    /\ earlyRead = FALSE

\* No adapter: the state of the adapter's variables in Spec.
NoChan ==
    /\ input = <<>>
    /\ inCap = 0
    /\ buffer = 0
    /\ sent = 0
    /\ inBuf = <<>>
    /\ inClosed = FALSE
    /\ pcIn = "none"
    /\ task = NoTask
    /\ pcOut = "none"
    /\ data = Nil
    /\ lock = "free"
    /\ outBuf = <<>>
    /\ received = <<>>
    /\ popped = <<>>
    /\ nEarly = 0
    /\ earlyRead = FALSE

\* The variables no step of DecorateChannel changes: the histories of the
\* Queue API and the callers of SpecConc.
history == <<ret, served, run, nEnq, nDeq, renum, tvars>>

\* The panic of line 100 ends the program and with it every goroutine, the
\* producer and the consumer included: nothing runs after it.
Running == pcOut # "panic"

\* The producer: inChan <- task, inChan buffered and not full.
ProducerSend ==
    /\ Running
    /\ sent < Len(input) /\ ~inClosed
    /\ inCap > 0 /\ Len(inBuf) < inCap
    /\ inBuf' = Append(inBuf, Fed(sent + 1))
    /\ sent' = sent + 1
    /\ UNCHANGED <<heap, count, history, input, inCap, buffer, inClosed, pcIn,
                   task, pcOut, data, lock, outBuf, received, popped, nEarly,
                   earlyRead>>

\* The producer: inChan <- task, inChan unbuffered: the send completes when
\* the ingestion goroutine, at its receive, takes the task (line 87).
ProducerHandoff ==
    /\ Running
    /\ sent < Len(input) /\ ~inClosed
    /\ inCap = 0 /\ pcIn = "recv"
    /\ task' = Fed(sent + 1)
    /\ sent' = sent + 1
    /\ pcIn' = "lock"
    /\ UNCHANGED <<heap, count, history, input, inCap, buffer, inBuf, inClosed,
                   pcOut, data, lock, outBuf, received, popped, nEarly,
                   earlyRead>>

\* The producer: close(inChan), after the last send.
ProducerClose ==
    /\ Running
    /\ sent = Len(input) /\ ~inClosed
    /\ inClosed' = TRUE
    /\ UNCHANGED <<heap, count, history, input, inCap, buffer, sent, inBuf,
                   pcIn, task, pcOut, data, lock, outBuf, received, popped,
                   nEarly, earlyRead>>

\* Ingestion, line 87: for task := range inChan, a buffered task.
IngestRecv ==
    /\ Running
    /\ pcIn = "recv" /\ inBuf # <<>>
    /\ task' = Head(inBuf)
    /\ inBuf' = Tail(inBuf)
    /\ pcIn' = "lock"
    /\ UNCHANGED <<heap, count, history, input, inCap, buffer, sent, inClosed,
                   pcOut, data, lock, outBuf, received, popped, nEarly,
                   earlyRead>>

\* Ingestion, line 87: the range loop ends when inChan is closed and drained.
IngestExit ==
    /\ Running
    /\ pcIn = "recv" /\ inBuf = <<>> /\ inClosed
    /\ pcIn' = "done"
    /\ UNCHANGED <<heap, count, history, input, inCap, buffer, sent, inBuf,
                   inClosed, task, pcOut, data, lock, outBuf, received, popped,
                   nEarly, earlyRead>>

\* Ingestion, lines 88 and 41: pq.Enqueue takes the lock.
IngestLock ==
    /\ Running
    /\ pcIn = "lock" /\ lock = "free"
    /\ lock' = "in"
    /\ pcIn' = "enqueue"
    /\ UNCHANGED <<heap, count, history, input, inCap, buffer, sent, inBuf,
                   inClosed, task, pcOut, data, outBuf, received, popped,
                   nEarly, earlyRead>>

\* Mutant of IngestEnqueue: the lock is released without the task being
\* pushed.
IngestEnqueueDrop ==
    /\ Running
    /\ pcIn = "enqueue"
    /\ lock' = "free"
    /\ pcIn' = "signal"
    /\ UNCHANGED <<heap, count, history, input, inCap, buffer, sent, inBuf,
                   inClosed, task, pcOut, data, outBuf, received, popped,
                   nEarly, earlyRead>>

\* Ingestion, lines 42-53: the body of pq.Enqueue and its deferred Unlock.
IngestEnqueue ==
    /\ Running
    /\ pcIn = "enqueue"
    /\ Enqueue(task.Data, task.Priority)
    /\ lock' = "free"
    /\ pcIn' = "signal"
    /\ UNCHANGED <<history, input, inCap, buffer, sent, inBuf, inClosed, task,
                   pcOut, data, outBuf, received, popped, nEarly, earlyRead>>

\* Ingestion, line 89: cond.Signal() wakes the emission goroutine if it waits.
IngestSignal ==
    /\ Running
    /\ pcIn = "signal"
    /\ pcOut' = IF pcOut = "wait" THEN "woken" ELSE pcOut
    /\ pcIn' = "recv"
    /\ task' = NoTask
    /\ UNCHANGED <<heap, count, history, input, inCap, buffer, sent, inBuf,
                   inClosed, data, lock, outBuf, received, popped, nEarly,
                   earlyRead>>

\* Emission, line 94: pq.lock.Lock().
EmitLock ==
    /\ Running
    /\ pcOut = "lock" /\ lock = "free"
    /\ lock' = "out"
    /\ pcOut' = "check"
    /\ UNCHANGED <<heap, count, history, input, inCap, buffer, sent, inBuf,
                   inClosed, pcIn, task, data, outBuf, received, popped,
                   nEarly, earlyRead>>

\* Emission, lines 95-97: if the heap is empty, cond.Wait() joins the
\* waiters and releases the lock.
EmitCheck ==
    /\ Running
    /\ pcOut = "check"
    /\ IF Empty(heap)
       THEN pcOut' = "wait" /\ lock' = "free"
       ELSE pcOut' = "pop" /\ lock' = lock
    /\ UNCHANGED <<heap, count, history, input, inCap, buffer, sent, inBuf,
                   inClosed, pcIn, task, data, outBuf, received, popped,
                   nEarly, earlyRead>>

\* Emission, line 96: cond.Wait(), signalled, takes the lock again.
EmitWake ==
    /\ Running
    /\ pcOut = "woken" /\ lock = "free"
    /\ lock' = "out"
    /\ pcOut' = "pop"
    /\ UNCHANGED <<heap, count, history, input, inCap, buffer, sent, inBuf,
                   inClosed, pcIn, task, data, outBuf, received, popped,
                   nEarly, earlyRead>>

\* Mutant of EmitPop: the lock is still held when the payload is sent.
EmitPopKeepLock ==
    /\ Running
    /\ pcOut = "pop"
    /\ LET r == Pop(heap)
           enqueued == ItemHeapLen(heap) + Len(popped)
       IN  IF r.isNil
           THEN /\ pcOut' = "panic"
                /\ UNCHANGED <<heap, data, lock, popped, nEarly>>
           ELSE /\ heap' = r.heap
                /\ data' = r.item.Data
                /\ lock' = lock
                /\ pcOut' = "send"
                /\ popped' = Append(popped, r.item)
                /\ nEarly' = IF enqueued < Len(input) THEN nEarly + 1 ELSE nEarly
    /\ UNCHANGED <<count, history, input, inCap, buffer, sent, inBuf, inClosed,
                   pcIn, task, outBuf, received, earlyRead>>

\* Emission, lines 98-103: pop, panic on nil, else unlock.
EmitPop ==
    /\ Running
    /\ pcOut = "pop"
    /\ LET r == Pop(heap)
           enqueued == ItemHeapLen(heap) + Len(popped)
       IN  IF r.isNil
           THEN /\ pcOut' = "panic"
                /\ UNCHANGED <<heap, data, lock, popped, nEarly>>
           ELSE /\ heap' = r.heap
                /\ data' = r.item.Data
                /\ lock' = "free"
                /\ pcOut' = "send"
                /\ popped' = Append(popped, r.item)
                /\ nEarly' = IF enqueued < Len(input) THEN nEarly + 1 ELSE nEarly
    /\ UNCHANGED <<count, history, input, inCap, buffer, sent, inBuf, inClosed,
                   pcIn, task, outBuf, received, earlyRead>>

\* Mutant of EmitSend: the send never waits for room in outChan.
EmitSendUnbounded ==
    /\ Running
    /\ pcOut = "send"
    /\ buffer > 0
    /\ outBuf' = Append(outBuf, data)
    /\ data' = Nil
    /\ pcOut' = "lock"
    /\ UNCHANGED <<heap, count, history, input, inCap, buffer, sent, inBuf,
                   inClosed, pcIn, task, lock, received, popped, nEarly,
                   earlyRead>>

\* Emission, line 104: outChan <- data, outChan buffered and not full.
EmitSend ==
    /\ Running
    /\ pcOut = "send"
    /\ buffer > 0 /\ Len(outBuf) < buffer
    /\ outBuf' = Append(outBuf, data)
    /\ data' = Nil
    /\ pcOut' = "lock"
    /\ UNCHANGED <<heap, count, history, input, inCap, buffer, sent, inBuf,
                   inClosed, pcIn, task, lock, received, popped, nEarly,
                   earlyRead>>

\* Emission, line 104: outChan <- data, outChan unbuffered: the send
\* completes when the consumer receives.
EmitHandoff ==
    /\ Running
    /\ pcOut = "send"
    /\ buffer = 0
    /\ received' = Append(received, data)
    /\ earlyRead' = (earlyRead \/ sent < Len(input))
    /\ data' = Nil
    /\ pcOut' = "lock"
    /\ UNCHANGED <<heap, count, history, input, inCap, buffer, sent, inBuf,
                   inClosed, pcIn, task, lock, outBuf, popped, nEarly>>

\* The consumer: <-outChan, a buffered payload.
ConsumerRecv ==
    /\ Running
    /\ outBuf # <<>>
    /\ received' = Append(received, Head(outBuf))
    /\ earlyRead' = (earlyRead \/ sent < Len(input))
    /\ outBuf' = Tail(outBuf)
    /\ UNCHANGED <<heap, count, history, input, inCap, buffer, sent, inBuf,
                   inClosed, pcIn, task, pcOut, data, lock, popped, nEarly>>

----
\* package requestpq: goroutines calling one Queue concurrently. Each call
\* takes q.lock, runs its body and releases the lock on return (defer). The
\* heap operations are taken in two steps, so that the array is seen between
\* the append and the sift up, and between the removal and the sift down.

Threads == 1..NThreads

Call(op, d, p) == [op |-> op, d |-> d, p |-> p]

NoCall == Call("none", Nil, 0)

InitCallers ==
    /\ tpc = [t \in Threads |-> "idle"]
    /\ top = [t \in Threads |-> NoCall]

\* The variables the callers of SpecConc never change.
others == <<served, run, nDeq, renum, input, inCap, buffer, sent, inBuf,
            inClosed, pcIn, task, pcOut, data, outBuf, received, popped,
            nEarly, earlyRead>>

\* heap.Push line 65: the item appended, not yet sifted up.
PushAppend(h, item) ==
    [k \in 0..(ItemHeapLen(h) + 1) |-> IF k = ItemHeapLen(h) + 1 THEN item ELSE h[k]]

\* heap.Pop lines 76-81: the root swapped with the last item and cut off,
\* the new root not yet sifted down.
PopCut(h) ==
    LET n == ItemHeapLen(h)
        swapped == Swap(h, 1, n)
    IN  [item |-> swapped[n], heap |-> [k \in 0..(n - 1) |-> swapped[k]]]

\* A goroutine starts a call of q.Enqueue(d, p), q.Dequeue(), q.Len() or
\* q.Empty().
TCall(t, c) ==
    /\ tpc[t] = "idle"
    /\ tpc' = [tpc EXCEPT ![t] = "lock"]
    /\ top' = [top EXCEPT ![t] = c]
    /\ nEnq' = IF c.op = "Enqueue" THEN nEnq + 1 ELSE nEnq
    /\ UNCHANGED <<heap, count, ret, lock, others>>

\* Mutant of TLock: the lock is taken without waiting for it to be free.
TLockNoWait(t) ==
    /\ tpc[t] = "lock"
    /\ lock' = "held"
    /\ tpc' = [tpc EXCEPT ![t] = "cs"]
    /\ UNCHANGED <<heap, count, ret, nEnq, top, others>>

\* q.lock.Lock(), lines 41, 57, 68, 75.
TLock(t) ==
    /\ tpc[t] = "lock" /\ lock = "free"
    /\ lock' = "held"
    /\ tpc' = [tpc EXCEPT ![t] = "cs"]
    /\ UNCHANGED <<heap, count, ret, nEnq, top, others>>

\* Enqueue lines 43-52 up to the append of heap.Push (line 65).
TEnqueueAppend(t) ==
    /\ tpc[t] = "cs" /\ top[t].op = "Enqueue"
    /\ \E c \in (IF count = MaxUint64 THEN ReOrderCount(heap) ELSE {count}) :
          LET h == IF count = MaxUint64 THEN ReOrderHeap(heap) ELSE heap
              c1 == (c + 1) % (MaxUint64 + 1)
          IN  /\ count' = c1
              /\ heap' = PushAppend(h, Item(top[t].p, top[t].d, c1))
    /\ tpc' = [tpc EXCEPT ![t] = "mid"]
    /\ UNCHANGED <<ret, lock, nEnq, top, others>>

\* Enqueue: h.up of heap.Push (line 66), the return and the deferred Unlock.
TEnqueueUp(t) ==
    /\ tpc[t] = "mid" /\ top[t].op = "Enqueue"
    /\ heap' = up(heap, ItemHeapLen(heap))
    /\ ret' = Result("Enqueue", Nil, "", 0, FALSE)
    /\ lock' = "free"
    /\ tpc' = [tpc EXCEPT ![t] = "idle"]
    /\ top' = [top EXCEPT ![t] = NoCall]
    /\ UNCHANGED <<count, nEnq, others>>

\* Mutant of TDequeueEmpty: the error return leaves the lock held.
TDequeueEmptyNoUnlock(t) ==
    /\ tpc[t] = "cs" /\ top[t].op = "Dequeue"
    /\ Pop(heap).isNil
    /\ ret' = Dequeue(heap)
    /\ tpc' = [tpc EXCEPT ![t] = "idle"]
    /\ top' = [top EXCEPT ![t] = NoCall]
    /\ UNCHANGED <<heap, count, lock, nEnq, others>>

\* Dequeue lines 59-62 on an empty heap: Pop returns nil, Dequeue returns
\* the error, the deferred Unlock runs.
TDequeueEmpty(t) ==
    /\ tpc[t] = "cs" /\ top[t].op = "Dequeue"
    /\ Pop(heap).isNil
    /\ ret' = Dequeue(heap)
    /\ lock' = "free"
    /\ tpc' = [tpc EXCEPT ![t] = "idle"]
    /\ top' = [top EXCEPT ![t] = NoCall]
    /\ UNCHANGED <<heap, count, nEnq, others>>

\* Dequeue line 59, heap.Pop lines 76-81: the root removed.
TDequeueCut(t) ==
    /\ tpc[t] = "cs" /\ top[t].op = "Dequeue"
    /\ ~Empty(heap)
    /\ heap' = PopCut(heap).heap
    /\ top' = [top EXCEPT ![t].d = PopCut(heap).item.Data]
    /\ tpc' = [tpc EXCEPT ![t] = "mid"]
    /\ UNCHANGED <<count, ret, lock, nEnq, others>>

\* Dequeue: h.down(1) of heap.Pop (line 82), the return of the payload and
\* the deferred Unlock.
TDequeueDown(t) ==
    /\ tpc[t] = "mid" /\ top[t].op = "Dequeue"
    /\ heap' = down(heap, 1)
    /\ ret' = Result("Dequeue", top[t].d, "", 0, FALSE)
    /\ lock' = "free"
    /\ tpc' = [tpc EXCEPT ![t] = "idle"]
    /\ top' = [top EXCEPT ![t] = NoCall]
    /\ UNCHANGED <<count, nEnq, others>>

\* q.Len(), lines 69-70.
TLen(t) ==
    /\ tpc[t] = "cs" /\ top[t].op = "Len"
    /\ ret' = Result("Len", Nil, "", ItemHeapLen(heap), FALSE)
    /\ lock' = "free"
    /\ tpc' = [tpc EXCEPT ![t] = "idle"]
    /\ top' = [top EXCEPT ![t] = NoCall]
    /\ UNCHANGED <<heap, count, nEnq, others>>

\* q.Empty(), lines 76-77.
TEmpty(t) ==
    /\ tpc[t] = "cs" /\ top[t].op = "Empty"
    /\ ret' = Result("Empty", Nil, "", 0, Empty(heap))
    /\ lock' = "free"
    /\ tpc' = [tpc EXCEPT ![t] = "idle"]
    /\ top' = [top EXCEPT ![t] = NoCall]
    /\ UNCHANGED <<heap, count, nEnq, others>>

----
\* Specifications

\* No concurrent callers: the state of their variables in Spec and SpecChan.
NoCallers == tpc = <<>> /\ top = <<>>

Init == InitQueue /\ NoChan /\ NoCallers

Next ==
    \/ \E p \in Prios : nEnq < MaxEnq /\ CallEnqueue(nEnq + 1, p) /\ UNCHANGED <<cvars, tvars>>
    \/ CallDequeue /\ UNCHANGED <<cvars, tvars>>
    \/ CallLen /\ UNCHANGED <<cvars, tvars>>
    \/ CallEmpty /\ UNCHANGED <<cvars, tvars>>

Spec == Init /\ [][Next]_vars

InitAdapter ==
    /\ heap = NewHeap
    /\ count = 0
    /\ ret = Result("NewQueue", Nil, "", 0, FALSE)
    /\ served = <<>>
    /\ run = <<>>
    /\ nEnq = 0
    /\ nDeq = 0
    /\ renum = {}
    /\ InitChan
    /\ NoCallers

NextChan ==
    \/ ProducerSend
    \/ ProducerHandoff
    \/ ProducerClose
    \/ IngestRecv
    \/ IngestExit
    \/ IngestLock
    \/ IngestEnqueue
    \/ IngestSignal
    \/ EmitLock
    \/ EmitCheck
    \/ EmitWake
    \/ EmitPop
    \/ EmitSend
    \/ EmitHandoff
    \/ ConsumerRecv

SpecChan == InitAdapter /\ [][NextChan]_vars

\* The goroutines of DecorateChannel are scheduled fairly (a goroutine that
\* can run does run; sync.Mutex hands the lock to a waiter) and the consumer
\* keeps receiving. The producer is free to stop.
FairChan ==
    /\ WF_vars(IngestRecv) /\ WF_vars(IngestExit) /\ WF_vars(IngestLock)
    /\ WF_vars(IngestEnqueue) /\ WF_vars(IngestSignal)
    /\ WF_vars(EmitLock) /\ WF_vars(EmitCheck) /\ WF_vars(EmitWake)
    /\ WF_vars(EmitPop) /\ WF_vars(EmitSend)
    /\ WF_vars(EmitHandoff) /\ WF_vars(ConsumerRecv)

SpecChanFair == InitAdapter /\ [][NextChan]_vars /\ FairChan

InitConc == InitQueue /\ NoChan /\ InitCallers

InitHeap == InitQueue /\ count = 0 /\ NoChan /\ NoCallers

NextHeap ==
    \/ \E p \in Prios, o \in TieBreaks(nEnq + 1) :
          nEnq < MaxEnq /\ HeapPush(p, o) /\ UNCHANGED <<cvars, tvars>>
    \/ HeapPop /\ UNCHANGED <<cvars, tvars>>

SpecHeap == InitHeap /\ [][NextHeap]_vars

NextConc ==
    \/ \E t \in Threads, p \in Prios :
          nEnq < ConcEnq /\ TCall(t, Call("Enqueue", nEnq + 1, p))
    \/ \E t \in Threads, op \in {"Dequeue", "Len", "Empty"} : TCall(t, Call(op, Nil, 0))
    \/ \E t \in Threads : TLock(t)
    \/ \E t \in Threads : TEnqueueAppend(t)
    \/ \E t \in Threads : TEnqueueUp(t)
    \/ \E t \in Threads : TDequeueEmpty(t)
    \/ \E t \in Threads : TDequeueCut(t)
    \/ \E t \in Threads : TDequeueDown(t)
    \/ \E t \in Threads : TLen(t)
    \/ \E t \in Threads : TEmpty(t)

SpecConc == InitConc /\ [][NextConc]_vars

----
\* Claims about the Queue (Spec)

\* The items in the heap array, the dummy excluded.
Queued == {heap[k] : k \in 1..ItemHeapLen(heap)}

\* The items that leave the queue after the j-th successful Dequeue, if ever.
After(j) == Queued \cup {served[k] : k \in (j + 1)..Len(served)}

\* A renumbering happened after the Enqueue of payload a and not after the
\* push of payload b.
RenumberedBetween(a, b) == \E d \in renum : a < d /\ d <= b

DrainData(h) == [k \in 1..Len(Drain(h)) |-> Drain(h)[k].Data]

\* C1: the items dequeued one after another with no Enqueue in between, so
\* in particular the items of a drain that follows the enqueues, come out in
\* non-decreasing priority.
C1_PriorityAscending ==
    \A k \in 1..(Len(run) - 1) : run[k].Priority <= run[k + 1].Priority

\* Three or more enqueues, not in priority order, then a complete drain.
C1_Witness ==
    /\ Empty(heap) /\ Len(run) >= 3 /\ Len(run) = nEnq
    /\ \E k \in 1..(Len(run) - 1) :
          run[k].Data > run[k + 1].Data /\ run[k].Priority < run[k + 1].Priority

\* C2: of two items of equal priority enqueued with no renumbering between
\* their enqueues, the one enqueued first is dequeued first, whatever the
\* interleaving of enqueues and dequeues.
C2_StableTieBreak ==
    \A j \in 1..Len(served) : \A a \in After(j) :
        (a.Priority = served[j].Priority /\ ~RenumberedBetween(a.Data, served[j].Data))
            => served[j].Data < a.Data

\* Three items of one priority left in enqueue order, a dequeue having come
\* between the enqueues, and no renumbering at all.
C2_Witness ==
    /\ renum = {} /\ Empty(heap) /\ Len(served) >= 3 /\ Len(run) < Len(served)
    /\ \A j \in 1..Len(served) : served[j].Priority = served[1].Priority

\* C3: an Enqueue that finds the counter at its maximum leaves the items
\* that were already queued in the same relative dequeue order.
C3_RenumberKeepsOrder ==
    [][(count = MaxUint64 /\ nEnq' = nEnq + 1)
        => SelectSeq(DrainData(heap'), LAMBDA d : d # nEnq') = DrainData(heap)]_vars

\* A renumbering Enqueue has just run on two or more queued items, two of
\* them of equal priority.
C3_Witness ==
    /\ ret.op = "Enqueue" /\ nEnq \in renum
    /\ \E a, b \in Queued :
          a.Data < b.Data /\ b.Data < nEnq /\ a.Priority = b.Priority

C5_EmptySignalled ==
    [][nEnq = nDeq =>
        /\ ret'.op = "Dequeue" =>
              ret'.err = EmptyQueue /\ ret'.data = Nil /\ heap' = heap /\ nDeq' = nDeq
        /\ ret'.op = "Len" => ret'.n = 0
        /\ ret'.op = "Empty" => ret'.b]_vars

\* A Dequeue has failed on a queue emptied by dequeues.
C5_Witness ==
    /\ nEnq >= 2 /\ nEnq = nDeq
    /\ ret.op = "Dequeue" /\ ret.err = EmptyQueue

\* C6: the queue holds E - D items after E enqueues and D successful
\* dequeues, Len returns that number and Empty returns true exactly then
\* when it is 0.
C6_CountConsistent ==
    /\ ItemHeapLen(heap) = nEnq - nDeq
    /\ ret.op = "Len" => ret.n = nEnq - nDeq
    /\ ret.op = "Empty" => (ret.b <=> nEnq - nDeq = 0)

\* Len has returned 2 after three enqueues and a dequeue.
C6_Witness ==
    ret.op = "Len" /\ ret.n = 2 /\ nEnq = 3 /\ nDeq = 1

----
\* Claims about DecorateChannel (SpecChan)

\* The priority of the task whose payload is d.
PriorityOf(d) == input[d]

Descending == \A k \in 1..(Len(input) - 1) : input[k] > input[k + 1]

EqualPriorities == \A k \in 1..Len(input) : input[k] = input[1]

\* The received payloads from the k-th on are in non-decreasing priority.
AscendingFrom(k) ==
    \A i \in k..(Len(received) - 1) :
        PriorityOf(received[i]) <= PriorityOf(received[i + 1])

\* Payloads removed from the priority queue and not yet received.
InFlight == Len(popped) - Len(received)

\* C7 as stated: tasks fed in descending priority number and then read
\* arrive in ascending priority order.
C7_AscendingOutput ==
    (Descending /\ ~earlyRead /\ Len(received) = Len(input)) => AscendingFrom(1)

\* C7 amended: of tasks fed in descending priority number, those the
\* emission goroutine popped after the last task was enqueued arrive in
\* ascending priority order; the nEarly ones it popped before come first, in
\* the order popped.
C7_AscendingAfterEarlyPops ==
    Descending =>
        /\ AscendingFrom(nEarly + 1)
        /\ \A k \in 1..Len(received) : received[k] = popped[k].Data

\* All tasks fed in descending order and received, one popped early and two
\* popped after the last Enqueue.
C7_Witness ==
    /\ Descending /\ Len(received) = Len(input)
    /\ nEarly >= 1 /\ nEarly + 2 <= Len(received)

\* C8: tasks of one priority are received in the order fed, for every
\* interleaving, input capacity and output capacity.
C8_EqualPriorityFifo ==
    EqualPriorities => \A k \in 1..Len(received) : received[k] = k

\* All tasks of one priority received, all of them queued before the first
\* pop, through a buffered outChan.
C8_Witness ==
    /\ EqualPriorities /\ Len(received) = Len(input) /\ Len(input) >= 3
    /\ nEarly = 0 /\ buffer > 0

\* C9 as stated: with inChan and outChan unbuffered and no receive before
\* the producer's last send completed, the received payloads from the
\* second on are in non-decreasing priority.
C9_AscendingFromSecond ==
    (inCap = 0 /\ buffer = 0 /\ ~earlyRead) => AscendingFrom(2)

\* C10 as stated: at most buffer payloads are out of the priority queue and
\* not yet received.
C10_AtMostBuffer == InFlight <= buffer

\* C10 amended: at most buffer + 1 payloads are out of the priority queue
\* and not yet received: those in outChan and the one the emission goroutine
\* holds while it waits to send.
C10_AtMostBufferPlusOne ==
    /\ InFlight <= buffer + 1
    /\ InFlight = Len(outBuf) + (IF pcOut = "send" THEN 1 ELSE 0)

\* outChan is full and the emission goroutine holds one more payload.
C10_Witness ==
    buffer > 0 /\ Len(outBuf) = buffer /\ pcOut = "send" /\ InFlight = buffer + 1

----
\* Claims about concurrent callers (SpecConc)

\* No item of the array compares less than its parent.
HeapOrdered(h) == \A i \in 2..ItemHeapLen(h) : ~Less(h, i, parent(i))

InLock == {t \in Threads : tpc[t] \in {"cs", "mid"}}

\* C11: at most one call is inside the lock-protected section; a call that
\* has just taken the lock finds the heap complete (every item in heap
\* order, none half sifted); Len never returns a negative number.
C11_MutualExclusion ==
    /\ Cardinality(InLock) <= 1
    /\ InLock # {} <=> lock = "held"
    /\ (\E t \in Threads : tpc[t] = "cs") => HeapOrdered(heap)
    /\ ret.op = "Len" => ret.n >= 0

\* One caller is between the two steps of a heap operation, the array out
\* of heap order, and another caller waits for the lock.
C11_Witness ==
    \E t, u \in Threads :
        tpc[t] = "mid" /\ ~HeapOrdered(heap) /\ tpc[u] = "lock"

----
\* Claims about the heap alone (SpecHeap)

\* C12: after every Push and every Pop, in any interleaving, no item at a
\* non-root index i compares less than the item at parent(i) = i / 2.
C12_HeapOrder == HeapOrdered(heap)

\* Three or more items of mixed priorities and tie-breaks are in the array
\* after pushes and a pop.
C12_Witness ==
    /\ nDeq >= 1 /\ ItemHeapLen(heap) >= 3
    /\ \E a, b \in Queued : a.Priority # b.Priority
    /\ \E a, b \in Queued : a.Data # b.Data /\ a.Priority = b.Priority /\ a.Order = b.Order

\* Every item pushed so far, in the array or popped.
Pushed == Queued \cup {served[k] : k \in 1..Len(served)}

\* Each item carries a larger tie-break value than the items pushed before.
TieBreaksIncrease ==
    \A a, b \in Pushed : a.Data < b.Data => a.Order < b.Order

\* C19: the heap alone is not stable (its witness: equal priorities and
\* identical tie-break values popped out of insertion order); items of equal
\* priority are popped in insertion order when each item carries a strictly
\* larger tie-break value than the items pushed before it.
C19_StableWithIncreasingTieBreaks ==
    TieBreaksIncrease =>
        \A j \in 1..Len(served) : \A a \in After(j) :
            a.Priority = served[j].Priority => served[j].Data < a.Data

\* Three pushes of one priority and one tie-break value, then pops that
\* return a later push before an earlier one.
C19_Witness ==
    /\ \A a, b \in Pushed : a.Priority = b.Priority /\ a.Order = b.Order
    /\ \E i, j \in 1..Len(served) : i < j /\ served[i].Data > served[j].Data

----
\* Claims about DecorateChannel under fair scheduling (SpecChanFair)

\* C13: once inChan is closed the ingestion goroutine ends; the emission
\* goroutine does not: when the consumer has taken what was left it waits on
\* the condition variable, and stays there for ever.
C13_EmissionParkedForever ==
    /\ [](inClosed => <>(pcIn = "done"))
    /\ [](pcIn = "done" => <>[](pcOut = "wait"))
    /\ [][(pcIn = "done" /\ pcOut = "wait") => pcOut' = "wait"]_vars

\* The payloads written to outChan, buffered or received.
Written == {outBuf[k] : k \in 1..Len(outBuf)} \cup {received[k] : k \in 1..Len(received)}

\* C15: the emission goroutine's Pop never returns nil, so the panic
\* "pop an empty queue" of line 100 is never reached.
C15_NoPanic == pcOut # "panic"

\* C16: every task the ingestion goroutine takes from inChan is eventually
\* written to outChan, and the emission goroutine does not stay on the
\* condition variable while the heap holds an item.
C16_NoLostWakeup ==
    /\ \A k \in 1..NTasks : [](task.Data = k => <>(k \in Written))
    /\ []((pcOut = "wait" /\ ~Empty(heap)) => <>(pcOut # "wait"))

\* C17: the emission goroutine does not hold the lock while it sends to
\* outChan, so the ingestion goroutine can take the lock whenever the
\* emission goroutine is at the send, however long outChan stays full or
\* unread; while the program runs, the ingestion goroutine waits for the
\* lock only while the emission goroutine is between Lock and Unlock.
C17_SendOutsideLock ==
    /\ pcOut = "send" => lock # "out"
    /\ (pcOut = "send" /\ pcIn = "lock") => lock = "free"
    /\ (Running /\ pcIn = "lock" /\ lock # "free") =>
           (lock = "out" /\ pcOut \in {"check", "pop"})
    /\ lock = "in" <=> pcIn = "enqueue"

\* The emission goroutine is blocked at the send (outChan full, or unbuffered
\* with nothing received yet); the ingestion goroutine has enqueued a task
\* meanwhile and holds the lock to enqueue another.
C17_Witness ==
    /\ pcOut = "send" /\ Len(outBuf) = buffer /\ received = <<>>
    /\ ItemHeapLen(heap) >= 1
    /\ pcIn = "enqueue" /\ lock = "in"

----
\* Claims about interleaved calls (Spec) and concurrent callers (SpecConc)

\* Item m is a least item of the set S under (Priority, Order).
MinimalIn(m, S) ==
    \A a \in S : \/ m.Priority < a.Priority
                 \/ (m.Priority = a.Priority /\ m.Order <= a.Order)

\* C14: as long as no Enqueue has renumbered, a Dequeue that succeeds
\* returns the payload of the item that is least under (Priority, Order)
\* among the items queued at the call, and removes that item and no other.
C14_DequeueReturnsMinimum ==
    [][(nDeq' = nDeq + 1 /\ renum = {}) =>
          \E m \in Queued :
              /\ MinimalIn(m, Queued)
              /\ ret' = Result("Dequeue", m.Data, "", 0, FALSE)
              /\ Queued' = Queued \ {m}]_vars

\* No renumbering; a Dequeue, with an Enqueue since the Dequeue before it,
\* has just returned a payload enqueued after one of larger priority number
\* that is still queued.
C14_Witness ==
    /\ renum = {} /\ nEnq >= 3
    /\ ret.op = "Dequeue" /\ ret.err = ""
    /\ Len(served) >= 2 /\ Len(run) = 1
    /\ \E a \in Queued : /\ a.Priority > served[Len(served)].Priority
                          /\ a.Data < served[Len(served)].Data
    /\ \E a \in Queued : /\ a.Priority = served[Len(served)].Priority
                          /\ a.Data > served[Len(served)].Data

\* Caller t's Dequeue returns from an empty heap in this step.
FailedDequeue(t) ==
    tpc[t] = "cs" /\ top[t].op = "Dequeue" /\ Empty(heap) /\ tpc'[t] = "idle"

\* C18: a Dequeue that fails returns EmptyQueue, leaves the heap without
\* items and the counter as it was, and releases the lock; as long as that
\* error is the last return and no call holds the lock, the heap is the
\* empty heap and the next call can take the lock.
C18_FailedDequeueLeavesQueue ==
    /\ [][\A t \in Threads : FailedDequeue(t) =>
              /\ ret' = Result("Dequeue", Nil, EmptyQueue, 0, FALSE)
              /\ heap' = heap /\ heap' = NewHeap
              /\ count' = count
              /\ lock' = "free"]_vars
    /\ []((ret.err = EmptyQueue /\ InLock = {}) => (lock = "free" /\ heap = NewHeap))

\* After an Enqueue and a Dequeue that emptied the queue, a Dequeue failed,
\* and the Enqueue called next has taken the lock and appended its item.
C18_Witness ==
    /\ ret.err = EmptyQueue
    /\ \E t \in Threads :
          /\ tpc[t] = "mid" /\ top[t].op = "Enqueue" /\ top[t].d >= 2
          /\ ItemHeapLen(heap) = 1

----
\* Conservation of payloads in DecorateChannel (SpecChan)

\* The number of tasks the ingestion goroutine has taken from inChan; they
\* are the payloads 1..Taken.
Taken == sent - Len(inBuf)

\* How many times payload k occurs in the sequence s.
SeqCount(s, k) == Cardinality({i \in 1..Len(s) : s[i] = k})

\* How many times payload k occurs in the heap, in the emission goroutine's
\* hand, in outChan's buffer and among the payloads the consumer received.
Downstream(k) ==
    Cardinality({i \in 1..ItemHeapLen(heap) : heap[i].Data = k})
        + (IF data = k THEN 1 ELSE 0)
        + SeqCount(outBuf, k) + SeqCount(received, k)

\* 1 if the ingestion goroutine holds payload k, taken from inChan (line 87)
\* and not yet pushed by pq.Enqueue (line 88).
IngestHolds(k) ==
    IF pcIn \in {"lock", "enqueue"} /\ task.Data = k THEN 1 ELSE 0

\* C21 as stated: every payload taken from inChan occurs exactly once in the
\* heap, the emission goroutine's hand, outChan's buffer or the consumer's
\* received payloads, and no other payload occurs there.
C21_TakenEqualsDownstream ==
    \A k \in 1..NTasks : Downstream(k) = (IF k <= Taken THEN 1 ELSE 0)

\* C21, amended: the same with the payload the ingestion goroutine holds
\* between taking it from inChan and pushing it counted as a fifth place.
C21_TakenConserved ==
    \A k \in 1..NTasks :
        IngestHolds(k) + Downstream(k) = (IF k <= Taken THEN 1 ELSE 0)

\* Every task taken: one received by the consumer or buffered in outChan,
\* one in the emission goroutine's hand, and the ingestion goroutine inside
\* pq.Enqueue with the last one.
C21_Witness ==
    /\ Taken = NTasks /\ pcIn = "enqueue"
    /\ data # Nil /\ pcOut = "send"
    /\ Len(received) + Len(outBuf) >= 1

====
